---------------------------- MODULE Spec2Model ----------------------------
(***************************************************************************)
(* A model of SnapshillBot (src/snapshill.py): the polling loop, one cycle *)
(* of Snapshill.run, the archive providers, the Link attempt list, the     *)
(* notification builder and poster, and the "links" table that keeps one   *)
(* row per notified submission.                                            *)
(*                                                                         *)
(* Strings of the program are TLA+ strings.  A URL is a record             *)
(* [s |-> STRING, pad |-> Nat]: the characters s followed by pad copies of *)
(* the character "x", so that URLs of ten thousand characters, which the   *)
(* size limits of Notification.notify are about, stay small values.        *)
(***************************************************************************)
EXTENDS Integers, Sequences, FiniteSets, TLC

(* ------------------------------ bounds -------------------------------- *)

\* The number of times the main loop may start a cycle.
MaxCycles == 2

\* The most submissions one r.get_new() returns in the model.
MaxFeed == 2

(* ---------------------------- string helpers -------------------------- *)

Min(a, b) == IF a < b THEN a ELSE b

CharAt(s, i) == SubSeq(s, i, i)

\* s has the literal lit at position i (1-based).
HasAt(s, i, lit) ==
    /\ i >= 1
    /\ i + Len(lit) - 1 <= Len(s)
    /\ SubSeq(s, i, i + Len(lit) - 1) = lit

Url(str) == [s |-> str, pad |-> 0]

UrlLen(u) == Len(u.s) + u.pad

\* "prefix" + url
Prepend(prefix, u) == [s |-> prefix \o u.s, pad |-> u.pad]

\* The characters the regular expressions look at: every padding character
\* is an "x", and no pattern of the program tells one "x" from several.
Shape(u) == IF u.pad > 0 THEN u.s \o "x" ELSE u.s

(* ------------------------- regular expressions ------------------------ *)

\* [A-z]: the ASCII range 65..122, the letters and the characters between
\* "Z" and "a".  The grave accent (96) is in the range too; a TLA+ string
\* cannot hold it, and no URL of the model does.
AzChars ==
    { "A", "B", "C", "D", "E", "F", "G", "H", "I", "J", "K", "L", "M",
      "N", "O", "P", "Q", "R", "S", "T", "U", "V", "W", "X", "Y", "Z",
      "[", "\\", "]", "^", "_",
      "a", "b", "c", "d", "e", "f", "g", "h", "i", "j", "k", "l", "m",
      "n", "o", "p", "q", "r", "s", "t", "u", "v", "w", "x", "y", "z" }

IsAz(s, i) == i >= 1 /\ i <= Len(s) /\ CharAt(s, i) \in AzChars

\* Where the group (([A-z]{2})(-[A-z]{2})?|beta|i|m|pay|ssl|www) can end
\* (exclusive) when it starts at j.
SubdomainEnds(s, j) ==
    (IF IsAz(s, j) /\ IsAz(s, j + 1) THEN {j + 2} ELSE {})
    \cup (IF /\ IsAz(s, j) /\ IsAz(s, j + 1) /\ HasAt(s, j + 2, "-")
             /\ IsAz(s, j + 3) /\ IsAz(s, j + 4)
          THEN {j + 5} ELSE {})
    \cup { j + Len(w) : w \in { w \in {"beta", "i", "m", "pay", "ssl", "www"} :
                                 HasAt(s, j, w) } }

\* Where \.?reddit\.com can end (exclusive) when it starts at k.
DomainEnds(s, k) ==
    (IF HasAt(s, k, "reddit.com") THEN {k + 10} ELSE {})
    \cup (IF HasAt(s, k, ".reddit.com") THEN {k + 11} ELSE {})

\* Where https?:// can end (exclusive) when it starts at i.
SchemeEnds(s, i) ==
    (IF HasAt(s, i, "http://") THEN {i + 7} ELSE {})
    \cup (IF HasAt(s, i, "https://") THEN {i + 8} ELSE {})

\* The ends (exclusive) of the matches of REDDIT_PATTERN that start at i.
\* "reddit.com" does not overlap itself and the group is at most five
\* characters long, so there is at most one.
RedditEnds(s, i) ==
    UNION { UNION { DomainEnds(s, k) : k \in SubdomainEnds(s, j) } :
            j \in SchemeEnds(s, i) }

\* re.match(REDDIT_PATTERN, url): a match at the start of url.
REDDIT_PATTERN_match(u) == RedditEnds(Shape(u), 1) # {}

RECURSIVE SubFrom(_, _, _)
\* re.sub(REDDIT_PATTERN, repl, s) from position i on: the leftmost match is
\* replaced and the scan goes on after it.
SubFrom(s, i, repl) ==
    IF i > Len(s) THEN ""
    ELSE IF RedditEnds(s, i) # {}
         THEN repl \o SubFrom(s, CHOOSE e \in RedditEnds(s, i) : TRUE, repl)
         ELSE CharAt(s, i) \o SubFrom(s, i + 1, repl)

\* re.sub(REDDIT_PATTERN, repl, url)
REDDIT_PATTERN_sub(repl, u) == [s |-> SubFrom(u.s, 1, repl), pad |-> u.pad]

\* s[i..] is [^\/]+/?$ : one or more characters that are no slash, then an
\* optional slash, then the end.
RECURSIVE NameToEnd(_, _, _)
NameToEnd(s, i, seen) ==
    IF i > Len(s) THEN seen > 0
    ELSE IF CharAt(s, i) = "/" THEN seen > 0 /\ i = Len(s)
         ELSE NameToEnd(s, i + 1, seen + 1)

\* s[i..] is (u|user|r)/[^\/]+/?$
KindNameToEnd(s, i) ==
    \E w \in {"u", "user", "r"} :
        HasAt(s, i, w \o "/") /\ NameToEnd(s, i + Len(w) + 1, 0)

\* re.match(PLAIN_SUBREDDIT_OR_USER, url)
PLAIN_SUBREDDIT_OR_USER_match(u) ==
    LET s == Shape(u)
    IN  \/ KindNameToEnd(s, 1)
        \/ HasAt(s, 1, "/") /\ KindNameToEnd(s, 2)

\* SUBREDDIT_OR_USER.search(url)
SUBREDDIT_OR_USER_search(u) ==
    LET s == Shape(u)
    IN  \E i \in 1..Len(s) : HasAt(s, i, "/") /\ KindNameToEnd(s, i + 1)

(* --------------------------- the URL filters -------------------------- *)

\* The mention looked for anywhere in the URL instead of as the whole of it.
fix_url_unanchored(u) ==
    REDDIT_PATTERN_sub("http://www.reddit.com",
        IF SUBREDDIT_OR_USER_search(u)
        THEN Prepend("http://www.reddit.com/", u)
        ELSE u)

fix_url(u) ==
    REDDIT_PATTERN_sub("http://www.reddit.com",
        IF PLAIN_SUBREDDIT_OR_USER_match(u)
        THEN Prepend("http://www.reddit.com/", u)
        ELSE u)

skip_url(u) == REDDIT_PATTERN_match(u) /\ SUBREDDIT_OR_USER_search(u)

(* ------------------------------ constants ----------------------------- *)

LEN_MAX == 35

\* WAIT and REFRESH of the environment: the sleep between two cycles and the
\* age at which the header texts are loaded again, in seconds.  The model
\* runs with REFRESH=10, so that the reload happens in its second cycle.
wait == 5

refresh == 10

\* The exceptions `except RECOVERABLE_EXC` catches: praw.errors.APIException,
\* ClientException and HTTPException.
RECOVERABLE_EXC == {"APIException", "ClientException", "HTTPException"}

\* What a call of the requests session raises when the transport fails:
\* requests.exceptions.Timeout, which is no praw exception.
SessionExceptions == {"Timeout"}

\* What a call of the reddit client raises: a praw exception, or the
\* transport's exception under it.
RedditExceptions == {"APIException", "Timeout"}

get_footer ==
    "*^(I am a bot.) ^\\([*Info*](/r/SnapshillBot) ^/ "
        \o "^[*Contact*](/message/compose?to=\\/r\\/SnapshillBot))*"

\* The values of Archive.archived that are no URL.
None == [py |-> "None"]

False == [py |-> "False"]

IsUrl(v) == v # None /\ v # False

\* What a called function does: it returns a value or raises an exception.
Return(v) == [kind |-> "return", value |-> v, exc |-> ""]

Raise(e) == [kind |-> "raise", value |-> None, exc |-> e]

(* ------------------------------ providers ----------------------------- *)

MEGALODON_DECIDE == Url("http://megalodon.jp/pc/get_simple/decide")

\* What the requests session answers to one call: exc is the exception it
\* raises ("" when it returns a response), status the response's status,
\* url the response's final URL and found the substrings of its text that
\* match http[s]?://archive.is/[0-z]{1,6}.  The session answers with an
\* exception, with the page of a new archive, or with a refusal: status 403,
\* no redirect and no archive link in the text.
Reply(exc, status, url, found) ==
    [exc |-> exc, status |-> status, url |-> url, found |-> found]

SessionReplies ==
    { Reply(e, 0, MEGALODON_DECIDE, <<>>) : e \in SessionExceptions }
    \cup { Reply("", 200, Url("http://megalodon.jp/2015-0101-0000-00/a"),
                 <<Url("https://archive.is/AbC12")>>),
           Reply("", 403, MEGALODON_DECIDE, <<>>) }

\* time.strftime(ARCHIVE_ORG_FORMAT, time.gmtime()) during cycle n: the
\* clock of the model reads another minute in every cycle.
DateOf(n) == "201501010" \o ToString(n) \o "0000"

\* Archive.__init__
ArchiveInit(site, url) == [site |-> site, url |-> url, archived |-> None]

\* ArchiveIsArchive.archive
ArchiveIsArchive_archive(url, reply) ==
    IF reply.exc # ""
    THEN IF reply.exc \in RECOVERABLE_EXC THEN Return(False)
         ELSE Raise(reply.exc)
    ELSE IF Len(reply.found) < 1 THEN Return(False)
         ELSE Return(reply.found[1])

\* ArchiveOrgArchive.archive: the handler of RECOVERABLE_EXC names HTTPError,
\* which the module neither defines nor imports, so it raises NameError;
\* a response is never asked for its status.
ArchiveOrgArchive_archive(url, reply, date) ==
    IF reply.exc # ""
    THEN IF reply.exc \in RECOVERABLE_EXC THEN Raise("NameError")
         ELSE Raise(reply.exc)
    ELSE Return(Prepend("https://web.archive.org/" \o date \o "/", url))

\* MegalodonJPArchive.archive
MegalodonJPArchive_archive(url, reply) ==
    IF reply.exc # ""
    THEN IF reply.exc \in RECOVERABLE_EXC THEN Return(False)
         ELSE Raise(reply.exc)
    ELSE IF reply.url = MEGALODON_DECIDE THEN Return(False)
         ELSE Return(reply.url)

\* GoldfishArchive.archive
GoldfishArchive_archive(url) ==
    Return(REDDIT_PATTERN_sub("https://snew.github.io", url))

\* archive() of the attempt a, by its class.
Archive_archive(a, reply, date) ==
    CASE a.site = "archive.org" -> ArchiveOrgArchive_archive(a.url, reply, date)
      [] a.site = "megalodon.jp" -> MegalodonJPArchive_archive(a.url, reply)
      [] a.site = "snew.github.io" -> GoldfishArchive_archive(a.url)
      [] a.site = "archive.is" -> ArchiveIsArchive_archive(a.url, reply)

\* The classes whose archive() calls the requests session.
CallsSession(a) == a.site # "snew.github.io"

ClassName(site) ==
    CASE site = "archive.org" -> "ArchiveOrgArchive"
      [] site = "megalodon.jp" -> "MegalodonJPArchive"
      [] site = "snew.github.io" -> "GoldfishArchive"
      [] site = "archive.is" -> "ArchiveIsArchive"

(* -------------------------------- Link -------------------------------- *)

\* The text cut from LEN_MAX characters on.
LinkText_cut_from(text) ==
    IF Len(text) >= LEN_MAX THEN SubSeq(text, 1, LEN_MAX) \o "..." ELSE text

\* Link.__init__: the display text and the attempt list.
LinkText(text) ==
    IF Len(text) > LEN_MAX THEN SubSeq(text, 1, LEN_MAX) \o "..." ELSE text

\* The mirror appended after archive.is instead of before it.
LinkArchives_mirror_last(url) ==
    <<ArchiveInit("archive.org", url), ArchiveInit("megalodon.jp", url),
      ArchiveInit("archive.is", url)>>
    \o (IF REDDIT_PATTERN_match(url)
        THEN <<ArchiveInit("snew.github.io", url)>> ELSE <<>>)

LinkArchives(url) ==
    <<ArchiveInit("archive.org", url), ArchiveInit("megalodon.jp", url)>>
    \o (IF REDDIT_PATTERN_match(url)
        THEN <<ArchiveInit("snew.github.io", url)>> ELSE <<>>)
    \o <<ArchiveInit("archive.is", url)>>

Link(url, text) ==
    [url |-> url, text |-> LinkText(text), archives |-> LinkArchives(url)]

(* ---------------------------- Notification ---------------------------- *)

RECURSIVE SumLen(_, _, _)
\* The sum of Op(item) over items[i..].
SumLen(Op(_), items, i) ==
    IF i > Len(items) THEN 0 ELSE Op(items[i]) + SumLen(Op, items, i + 1)

\* len(sep.join(items)) with sep of seplen characters.
JoinLen(Op(_), items, seplen) ==
    IF Len(items) = 0 THEN 0
    ELSE SumLen(Op, items, 1) + seplen * (Len(items) - 1)

\* len(str(n)) for the numbers the model prints.
DigitsLen(n) == IF n < 10 THEN 1 ELSE IF n < 100 THEN 2 ELSE 3

\* str(archive.name): name is a method and _build does not call it, so the
\* text is that of the bound method,
\* <bound method Archive.name of <__main__.CLASS object at 0x7f0000000000>>.
NameText(site) ==
    "<bound method Archive.name of <__main__." \o ClassName(site)
        \o " object at 0x7f0000000000>>"

\* One "[{name}]({archive})" of a line.
Subpart(a) == [site |-> a.site, name |-> NameText(a.site), archive |-> a.archived]

SubpartLen(sp) == 1 + Len(sp.name) + 2 + UrlLen(sp.archive) + 1

\* The attempts of a link _build makes a subpart of: those it does not
\* `continue` over.
Listed(link) == SelectSeq(link.archives, LAMBDA a : a.archived # None)

\* _build's line of link number no: "{}. {} - {}" of the number, the
\* display text and the subparts joined by ", ".
BuildLine(no, link) ==
    [no |-> no, text |-> link.text,
     subparts |-> [k \in 1..Len(Listed(link)) |-> Subpart(Listed(link)[k])]]

\* The URLs that are written into the line: the arguments of the line's
\* format are the number, link.text and the joined subparts, so they are
\* the URLs of the subparts.
LineUrls(l) == { l.subparts[k].archive : k \in 1..Len(l.subparts) }

LineLen(l) ==
    DigitsLen(l.no) + 2 + Len(l.text) + 3 + JoinLen(SubpartLen, l.subparts, 2)

\* The first attempt, in the order _build walks the links, whose archived
\* is False: there _build evaluates archive.error_link + ' "could not ...',
\* a method plus a string.
HasFailed(links) ==
    \E i \in 1..Len(links) : \E k \in 1..Len(links[i].archives) :
        links[i].archives[k].archived = False

\* Notification._build: the comment, or the TypeError of the first failed
\* attempt.
Notification_build(header, links) ==
    IF HasFailed(links) THEN Raise("TypeError")
    ELSE Return([header |-> header,
                 lines |-> [i \in 1..Len(links) |-> BuildLine(i, links[i])]])

\* len("\n\n".join(parts)) of parts = [header, "Snapshots:", lines, footer].
CommentLen(c) ==
    Len(c.header) + 2 + Len("Snapshots:") + 2
        + SumLen(LAMBDA l : LineLen(l) + 2, c.lines, 1) + Len(get_footer)

\* What notify posts.  The assembled comment as it is:
WholeText(c) == [kind |-> "comment", of |-> c, len |-> CommentLen(c)]

\* comment[:39999]
SlicedText(c, n) == [kind |-> "slice", of |-> c, len |-> Min(CommentLen(c), n)]

\* "The original submission can be found here:\n\n" + link
BacklinkText(link) ==
    [kind |-> "backlink", of |-> link,
     len |-> Len("The original submission can be found here:") + 2 + UrlLen(link)]

\* "Wow, that's a lot of links! The snapshots can be [found here.]("
\*     + submission.url + ")\n\n" + get_footer()
ShortText(url) ==
    [kind |-> "short", of |-> url,
     len |-> Len("Wow, that's a lot of links! The snapshots can be [found here.](")
             + UrlLen(url) + 3 + Len(get_footer)]

\* The limit of notify: a comment of more than this goes to /r/SnapshillBotEx.
COMMENT_MAX == 9999

\* The cut of the text of the submission to /r/SnapshillBotEx.
SUBMISSION_MAX == 39999

\* The handler without its return: notify goes on to the INSERT.
NotifyExcept_noreturn(exc) == IF exc \in RECOVERABLE_EXC THEN "record" ELSE "raise"

\* The handler that raises the exception again.
NotifyExcept_reraise(exc) == "raise"

\* notify's `except RECOVERABLE_EXC as e: log_error(e); return`: what
\* follows an exception of a posting step.
NotifyExcept(exc) == IF exc \in RECOVERABLE_EXC THEN "return" ELSE "raise"

(* ------------------------------- the store ---------------------------- *)

\* The gate left open: every submission is notified.
should_notify_open(db, name) == TRUE

\* Post.should_notify: no row of links has the submission's name.
should_notify(db, name) == ~ \E r \in 1..Len(db) : db[r].id = name

\* The table rewritten to the new row alone.
InsertLink_replace(db, name, reply) == <<[id |-> name, reply |-> reply]>>

\* INSERT INTO links (id, reply) VALUES (?, ?)
InsertLink(db, name, reply) == Append(db, [id |-> name, reply |-> reply])

(* ------------------------------- Header ------------------------------- *)

WhiteSpace == {" ", "\t", "\n", "\r"}

RECURSIVE LStrip(_)
LStrip(s) ==
    IF Len(s) > 0 /\ CharAt(s, 1) \in WhiteSpace
    THEN LStrip(SubSeq(s, 2, Len(s))) ELSE s

RECURSIVE RStrip(_)
RStrip(s) ==
    IF Len(s) > 0 /\ CharAt(s, Len(s)) \in WhiteSpace
    THEN RStrip(SubSeq(s, 1, Len(s) - 1)) ELSE s

\* str.strip()
Strip(s) == RStrip(LStrip(s))

RECURSIVE DashesEnd(_, _)
\* The position after the run of "-" that starts at i.
DashesEnd(s, i) ==
    IF i <= Len(s) /\ CharAt(s, i) = "-" THEN DashesEnd(s, i + 1) ELSE i

\* The end (exclusive) of the match of \r\n-{3,}\r\n at i, 0 when none.
QuoteSepEnd(s, i) ==
    IF /\ HasAt(s, i, "\r\n")
       /\ DashesEnd(s, i + 2) >= i + 5
       /\ HasAt(s, DashesEnd(s, i + 2), "\r\n")
    THEN DashesEnd(s, i + 2) + 2 ELSE 0

RECURSIVE SplitQuotes(_, _, _)
\* re.split('\r\n-{3,}\r\n', s): the pieces of s[start..], i the scan.
SplitQuotes(s, start, i) ==
    IF i > Len(s) THEN <<SubSeq(s, start, Len(s))>>
    ELSE IF QuoteSepEnd(s, i) # 0
         THEN <<SubSeq(s, start, i - 1)>>
              \o SplitQuotes(s, QuoteSepEnd(s, i), QuoteSepEnd(s, i))
         ELSE SplitQuotes(s, start, i + 1)

\* Header._parse_quotes
Header_parse_quotes(quotes_str) ==
    LET pieces == SplitQuotes(quotes_str, 1, 1)
        kept == SelectSeq(pieces, LAMBDA q : Strip(q) # "")
    IN  [k \in 1..Len(kept) |-> Strip(kept[k])]

\* Header.__init__: the texts of the header whose wiki page answers page, a
\* reply whose exc is the exception the read raises ("" when none) and
\* whose content is the page's text.
Header_init(page) ==
    IF page.exc # ""
    THEN IF page.exc \in RECOVERABLE_EXC THEN Return(<<>>)
         ELSE Raise(page.exc)
    ELSE IF HasAt(page.content, 1, "!ignore") THEN Return(<<>>)
         ELSE Return(Header_parse_quotes(page.content))

\* What the wiki page extxt/all answers in the model.
WikiPages ==
    { [exc |-> e, content |-> ""] : e \in RedditExceptions }
    \cup { [exc |-> "", content |-> c] :
           c \in { "!ignore\r\n---\r\nHi", " Hi \r\n-----\r\n\r\n---\r\nYo!", "" } }

\* The empty text returned for a header that has texts, too.
Header_get_any(texts) == {""} \cup { texts[k] : k \in 1..Len(texts) }

\* Header.get: the texts random.choice may return.
Header_get(texts) ==
    IF Len(texts) = 0 THEN {""} ELSE { texts[k] : k \in 1..Len(texts) }

UpperCase == "ABCDEFGHIJKLMNOPQRSTUVWXYZ"

LowerCase == "abcdefghijklmnopqrstuvwxyz"

RECURSIVE Lower(_)
\* str.lower() of an ASCII string.
Lower(s) ==
    IF Len(s) = 0 THEN ""
    ELSE LET c == CharAt(s, 1)
             at == { i \in 1..Len(UpperCase) : CharAt(UpperCase, i) = c }
         IN  (IF at = {} THEN c ELSE CharAt(LowerCase, CHOOSE i \in at : TRUE))
                 \o Lower(SubSeq(s, 2, Len(s)))

\* The header of the subreddit looked at before the one of "all".
Snapshill_get_header_local_first(hdrs, display_name) ==
    IF Lower(display_name) \in DOMAIN hdrs /\ Len(hdrs[Lower(display_name)]) > 0
    THEN hdrs[Lower(display_name)]
    ELSE hdrs["all"]

\* Snapshill._get_header: the texts of the header chosen for a subreddit.
Snapshill_get_header(hdrs, display_name) ==
    IF Len(hdrs["all"]) > 0 THEN hdrs["all"]
    ELSE IF Lower(display_name) \in DOMAIN hdrs THEN hdrs[Lower(display_name)]
         ELSE hdrs["all"]

(* ----------------------------- the feed -------------------------------- *)

\* The submissions r.get_new() can return in the model, by number;
\* selftext_html says whether the submission has one, anchors are the
\* (href, contents[0]) of the a elements found in it.
\*   1  a link post whose URL makes the comment 9997 characters long
\*      without a header: 9999 under the header "Hi", 10000 under "Yo!"
\*   2  a self post whose text has three anchors: a bare subreddit mention,
\*      a subreddit link on the bare host reddit.com, and the same URL again
\*      under a long text
\*   3  a self post whose text has no anchor
\*   4  a link post whose URL makes the comment longer than 39999 characters
\* and from 5 on self posts like 3.
NumSubmissions == 4

Submissions == 1..NumSubmissions

Anchor(href, text) == [href |-> Url(href), text |-> text]

SubmissionOf(n) ==
    [name |-> "t3_" \o ToString(n),
     permalink |-> Url("https://www.reddit.com/r/pics/comments/" \o ToString(n) \o "/t/"),
     url |-> CASE n = 1 -> [s |-> "http://example.com/a", pad |-> 9473]
               [] n = 4 -> [s |-> "http://example.com/?q=", pad |-> 40000]
               [] OTHER -> Url("https://www.reddit.com/r/pics/comments/"
                                   \o ToString(n) \o "/t/"),
     is_self |-> n \notin {1, 4},
     selftext_html |-> n \notin {1, 4},
     anchors |-> IF n = 2
                 THEN <<Anchor("/r/test", "sub"),
                        Anchor("http://reddit.com/r/test", "Example"),
                        Anchor("http://reddit.com/r/test",
                               "A subreddit whose name is longer than that")>>
                 ELSE <<>>,
     subreddit |-> "pics"]

RECURSIVE FeedsFrom(_, _)
\* The descending sequences of at most n submissions, all below top.
FeedsFrom(top, n) ==
    {<<>>} \cup
    (IF n = 0 THEN {}
     ELSE UNION { { <<k>> \o f : f \in FeedsFrom(k, n - 1) } : k \in 1..(top - 1) })

\* What r.get_new(limit) returns: newest first.
Feeds == FeedsFrom(NumSubmissions + 1, MaxFeed)

RECURSIVE CollectLinks(_, _, _)
\* run's loop over the anchors of a self post, from anchor i on: the links
\* appended to archives, finishedURLs being the URLs admitted so far.
CollectLinks(anchors, i, finishedURLs) ==
    IF i > Len(anchors) THEN <<>>
    ELSE LET url == fix_url(anchors[i].href)
         IN  IF skip_url(url) \/ url \in finishedURLs
             THEN CollectLinks(anchors, i + 1, finishedURLs)
             ELSE <<Link(url, anchors[i].text)>>
                  \o CollectLinks(anchors, i + 1, finishedURLs \cup {url})

\* The archives list run builds for a submission.
RunArchives(sub) ==
    <<Link(fix_url(sub.url), "*This Post*")>>
    \o (IF sub.is_self /\ sub.selftext_html
        THEN CollectLinks(sub.anchors, 1, {}) ELSE <<>>)

(* ------------------------------ the state ----------------------------- *)

VARIABLES
    pc,          \* where the process is: "loop" the head of the while loop
                 \* of __main__, "items" the head of run's for loop,
                 \* "archive" run's loop over the containers, "notify" the
                 \* call of notify, "submitted" and "backlinked" inside
                 \* notify's long branch, "commit" run's db.commit(),
                 \* "crashed" after an exception nobody caught
    cycles,      \* cycles of __main__
    started,     \* how many cycles were started in all
    date,        \* what the clock reads during the cycle
    raw_subs,    \* what is left of run's raw_subs
    submission,  \* the number of run's submission, 0 outside the loop body
    archives,    \* run's archives
    li, ai,      \* the container and the attempt the archival is at
    db_links,    \* the rows of the table links
    headers,     \* Snapshill.headers: the texts of each header
    extra,       \* notify's submission to /r/SnapshillBotEx
    nextid,      \* the next id reddit gives to a submission or to a comment
                 \* on an origin submission
    crash,       \* the exception that ended the process and where
    \* What happened, for the properties:
    invoked,     \* the archive() calls made for the current submission,
                 \* each with what the session answered
    effects,     \* the posting steps made for the current submission
    commented,   \* origin submission name -> the ids of the comments posted
    postfail,    \* the submissions a posting step of notify failed for
    extras,      \* origin submission name -> submissions made for it
    caught,      \* what the handler of __main__ caught when the last cycle
                 \* ended: "" when the cycle ended without exception
    call         \* the application of a function under study: its name,
                 \* its argument and its result

vars == <<pc, cycles, started, date, raw_subs, submission, archives, li, ai,
          db_links, headers, extra, nextid, crash, invoked, effects,
          commented, postfail, extras, caught, call>>

NoCrash == [exc |-> "", at |-> ""]

NoExtra == [name |-> "", url |-> Url("")]

NoCall == [op |-> ""]

\* The state when __main__ enters its loop: setup() has loaded the header
\* "all"; the table links is empty.
Init ==
    /\ pc = "loop"
    /\ cycles = 0
    /\ started = 0
    /\ date = ""
    /\ raw_subs = <<>>
    /\ submission = 0
    /\ archives = <<>>
    /\ li = 0
    /\ ai = 0
    /\ db_links = <<>>
    /\ \E page \in WikiPages :
          /\ Header_init(page).kind = "return"
          /\ headers = [scope \in {"all"} |-> Header_init(page).value]
    /\ extra = NoExtra
    /\ nextid = 1
    /\ crash = NoCrash
    /\ invoked = <<>>
    /\ effects = <<>>
    /\ commented = [n \in {} |-> {}]
    /\ postfail = {}
    /\ extras = [n \in {} |-> 0]
    /\ caught = ""
    /\ call = NoCall

\* An exception leaves run and the loop of __main__, which catches only
\* RECOVERABLE_EXC (and KeyboardInterrupt): the process ends.
Crashes(exc, at) ==
    /\ pc' = "crashed"
    /\ crash' = [exc |-> exc, at |-> at]

\* f with f[k] set to v, k added to the domain when new.
Put(f, k, v) == [x \in DOMAIN f \cup {k} |-> IF x = k THEN v ELSE f[x]]

Get(f, k, default) == IF k \in DOMAIN f THEN f[k] ELSE default

(* ------------------------------ __main__ ------------------------------ *)

\* The handler that lets every exception through.
MainExcept_reraise(exc) == "raise"

\* The try of the loop of __main__: `except RECOVERABLE_EXC as e:
\* log_error(e)`, then time.sleep(wait) and the next turn of the loop;
\* another exception leaves the loop.
MainExcept(exc) == IF exc \in RECOVERABLE_EXC THEN "sleep" ELSE "raise"

\* while True: cycles += 1; snapshill.run() up to r.get_new().
RunStart ==
    /\ pc = "loop"
    /\ started < MaxCycles
    /\ started' = started + 1
    /\ cycles' = cycles + 1
    /\ date' = DateOf(started + 1)
    /\ \/ \E feed \in Feeds :
             /\ raw_subs' = feed
             /\ pc' = "items"
             /\ UNCHANGED <<crash, caught>>
       \/ \E e \in RedditExceptions :
             /\ raw_subs' = <<>>
             /\ IF MainExcept(e) = "sleep"
                THEN pc' = "loop" /\ caught' = e /\ UNCHANGED crash
                ELSE Crashes(e, "get_new") /\ UNCHANGED caught
    /\ UNCHANGED <<submission, archives, li, ai, db_links, headers, extra,
                   nextid, invoked, effects, commented, postfail, extras>>
    /\ UNCHANGED call

\* run returns: "Done", the refresh of the ignore list and of the headers
\* when cycles > (refresh / wait) / 2, and the sleep.
RunDone ==
    /\ pc = "items"
    /\ raw_subs = <<>>
    /\ submission' = 0
    /\ IF cycles * 2 * wait > refresh
       THEN \E friends \in {""} \cup RedditExceptions : \E page \in WikiPages :
               IF friends # ""
               THEN \* refresh_ignore_list raises
                    /\ UNCHANGED <<headers, cycles>>
                    /\ IF MainExcept(friends) = "sleep"
                       THEN pc' = "loop" /\ caught' = friends /\ UNCHANGED crash
                       ELSE Crashes(friends, "refresh_ignore_list") /\ UNCHANGED caught
               ELSE IF Header_init(page).kind = "raise"
                    THEN /\ UNCHANGED <<headers, cycles, caught>>
                         /\ Crashes(Header_init(page).exc, "refresh_headers")
                    ELSE /\ headers' = [scope \in {"all"} |-> Header_init(page).value]
                         /\ cycles' = 0
                         /\ pc' = "loop"
                         /\ caught' = ""
                         /\ UNCHANGED crash
       ELSE /\ pc' = "loop"
            /\ caught' = ""
            /\ UNCHANGED <<headers, cycles, crash>>
    /\ UNCHANGED <<started, date, raw_subs, archives, li, ai, db_links, extra,
                   nextid, invoked, effects, commented, postfail, extras>>
    /\ UNCHANGED call


(* ---------------------------- Snapshill.run --------------------------- *)

\* for raw_sub in raw_subs: the submission of the loop body.  The statement
\* that binds `submission` is cut short in the source; the body reads the
\* fetched submission's permalink, url, is_self, selftext_html and
\* subreddit, so it is the fetched submission.
BindSubmission(raw_sub) == raw_sub

\* The gate: not should_notify(submission) -> "Skipping.", continue.
SkipNotified ==
    /\ pc = "items"
    /\ raw_subs # <<>>
    /\ ~ should_notify(db_links, SubmissionOf(BindSubmission(Head(raw_subs))).name)
    /\ submission' = BindSubmission(Head(raw_subs))
    /\ raw_subs' = Tail(raw_subs)
    /\ UNCHANGED <<pc, cycles, started, date, archives, li, ai, db_links,
                   headers, extra, nextid, crash, invoked, effects, commented,
                   postfail, extras>>
    /\ UNCHANGED <<caught, call>>

\* A text post in whose text find_all("a") finds nothing: continue.
SkipNoLinks ==
    /\ pc = "items"
    /\ raw_subs # <<>>
    /\ LET sub == SubmissionOf(BindSubmission(Head(raw_subs)))
       IN  /\ should_notify(db_links, sub.name)
           /\ sub.is_self /\ sub.selftext_html
           /\ Len(sub.anchors) = 0
    /\ submission' = BindSubmission(Head(raw_subs))
    /\ raw_subs' = Tail(raw_subs)
    /\ UNCHANGED <<pc, cycles, started, date, archives, li, ai, db_links,
                   headers, extra, nextid, crash, invoked, effects, commented,
                   postfail, extras>>
    /\ UNCHANGED <<caught, call>>

\* The submission passes the gate and run builds its archives list.
StartArchiving ==
    /\ pc = "items"
    /\ raw_subs # <<>>
    /\ LET sub == SubmissionOf(BindSubmission(Head(raw_subs)))
       IN  /\ should_notify(db_links, sub.name)
           /\ ~ (sub.is_self /\ sub.selftext_html /\ Len(sub.anchors) = 0)
           /\ archives' = RunArchives(sub)
    /\ submission' = BindSubmission(Head(raw_subs))
    /\ raw_subs' = Tail(raw_subs)
    /\ pc' = "archive"
    /\ li' = 1
    /\ ai' = 1
    /\ UNCHANGED <<cycles, started, date, db_links, headers, extra, nextid,
                   crash, invoked, effects, commented, postfail, extras>>
    /\ UNCHANGED <<caught, call>>

\* container.run(), one attempt at a time: the attempts of the container in
\* the order of its list, each one's archive() called once and its result
\* kept in archived.  Returns the result of the attempt's archive().
ContainerRunStep(a, reply, when) == Archive_archive(a, reply, when)

\* The last attempt of every container left out.
NextAttempt_short(as, i, k) ==
    IF k + 1 < Len(as[i].archives) THEN <<i, k + 1>>
    ELSE IF i < Len(as) THEN <<i + 1, 1>>
    ELSE <<0, 0>>

\* The place of the attempt after (i, k): the next attempt of the container,
\* the first of the next container, or <<0, 0>> after the last.
NextAttempt(as, i, k) ==
    IF k < Len(as[i].archives) THEN <<i, k + 1>>
    ELSE IF i < Len(as) THEN <<i + 1, 1>>
    ELSE <<0, 0>>

\* for container in archives: container.run()
ArchiveStep ==
    /\ pc = "archive"
    /\ LET a == archives[li].archives[ai]
       IN  \E reply \in IF CallsSession(a) THEN SessionReplies
                        ELSE {Reply("", 200, a.url, <<>>)} :
             LET res == ContainerRunStep(a, reply, date)
                 nxt == NextAttempt(archives, li, ai)
             IN  /\ invoked' = Append(invoked, [link |-> li, attempt |-> ai,
                                               site |-> a.site,
                                               exc |-> reply.exc,
                                               status |-> reply.status,
                                               kind |-> res.kind])
                 /\ IF res.kind = "raise"
                    THEN /\ Crashes(res.exc, "archive")
                         /\ UNCHANGED <<archives, li, ai>>
                    ELSE /\ archives' = [archives EXCEPT
                                            ![li].archives[ai].archived = res.value]
                         /\ li' = nxt[1]
                         /\ ai' = nxt[2]
                         /\ pc' = IF nxt = <<0, 0>> THEN "notify" ELSE "archive"
                         /\ UNCHANGED crash
    /\ UNCHANGED <<cycles, started, date, raw_subs, submission, db_links,
                   headers, extra, nextid, effects, commented, postfail, extras>>
    /\ UNCHANGED <<caught, call>>

(* ------------------------- Notification.notify ------------------------ *)

\* What a call of the reddit client does: "" when it returns.
RedditResults == {""} \cup RedditExceptions

\* The header texts notify's _build may start with.
HeaderChoices(sub) == Header_get(Snapshill_get_header(headers, sub.subreddit))

\* The limit off by one.
IsLong_from_limit(c) == CommentLen(c) >= COMMENT_MAX

\* if len(comment) > 9999
IsLong(c) == CommentLen(c) > COMMENT_MAX

\* text=comment[:39999]
SubmissionText(c) == SlicedText(c, SUBMISSION_MAX)

Effect(op, on, body, e) ==
    [op |-> op, on |-> on, body |-> body, ok |-> e = "", exc |-> e]

\* A posting step of notify raised e: RECOVERABLE_EXC is logged and notify
\* returns before the INSERT, run commits and goes on with the next
\* submission; anything else leaves notify and run.
PostRaised(e, name) ==
    /\ postfail' = IF e \in RECOVERABLE_EXC THEN postfail \cup {name} ELSE postfail
    /\ IF NotifyExcept(e) = "raise"
       THEN Crashes(e, "notify") /\ UNCHANGED db_links
       ELSE /\ pc' = "commit"
            /\ UNCHANGED crash
            /\ db_links' = IF NotifyExcept(e) = "return" THEN db_links
                           ELSE InsertLink(db_links, name, 0)

\* The comment on the submission was posted: the INSERT and run's commit.
PostReturned(name, reply) ==
    /\ commented' = Put(commented, name, Get(commented, name, {}) \cup {reply})
    /\ db_links' = InsertLink(db_links, name, reply)
    /\ pc' = "commit"
    /\ UNCHANGED <<crash, postfail>>

\* _build raises: the exception is no RECOVERABLE_EXC and leaves notify.
NotifyBuildRaises ==
    /\ pc = "notify"
    /\ \E h \in HeaderChoices(SubmissionOf(submission)) :
          LET b == Notification_build(h, archives)
          IN  /\ b.kind = "raise"
              /\ Crashes(b.exc, "build")
    /\ UNCHANGED <<cycles, started, date, raw_subs, submission, archives, li,
                   ai, db_links, headers, extra, nextid, invoked, effects,
                   commented, postfail, extras>>
    /\ UNCHANGED <<caught, call>>

\* The else branch: comment = self.post.add_comment(comment), the INSERT.
NotifyComment ==
    /\ pc = "notify"
    /\ LET sub == SubmissionOf(submission)
       IN  \E h \in HeaderChoices(sub) : \E e \in RedditResults :
             LET b == Notification_build(h, archives)
             IN  /\ b.kind = "return"
                 /\ ~ IsLong(b.value)
                 /\ effects' = Append(effects, Effect("post.add_comment", sub.name,
                                                     WholeText(b.value), e))
                 /\ IF e = ""
                    THEN PostReturned(sub.name, nextid) /\ nextid' = nextid + 1
                    ELSE /\ PostRaised(e, sub.name)
                         /\ UNCHANGED <<commented, nextid>>
    /\ UNCHANGED <<cycles, started, date, raw_subs, submission, archives, li,
                   ai, headers, extra, invoked, extras>>
    /\ UNCHANGED <<caught, call>>

\* The long branch, first step: r.submit("SnapshillBotEx", ...).
NotifySubmit ==
    /\ pc = "notify"
    /\ LET sub == SubmissionOf(submission)
       IN  \E h \in HeaderChoices(sub) : \E e \in RedditResults :
             LET b == Notification_build(h, archives)
             IN  /\ b.kind = "return"
                 /\ IsLong(b.value)
                 /\ effects' = Append(effects, Effect("r.submit", "SnapshillBotEx",
                                                     SubmissionText(b.value), e))
                 /\ IF e = ""
                    THEN /\ extra' = [name |-> "t3_x" \o ToString(nextid),
                                      url |-> Url("https://www.reddit.com/r/SnapshillBotEx/comments/"
                                                  \o ToString(nextid) \o "/")]
                         /\ extras' = Put(extras, sub.name, Get(extras, sub.name, 0) + 1)
                         /\ nextid' = nextid + 1
                         /\ pc' = "submitted"
                         /\ UNCHANGED <<crash, postfail, db_links>>
                    ELSE /\ PostRaised(e, sub.name)
                         /\ UNCHANGED <<extra, extras, nextid>>
    /\ UNCHANGED <<cycles, started, date, raw_subs, submission, archives, li,
                   ai, headers, invoked, commented>>
    /\ UNCHANGED <<caught, call>>

\* The long branch, second step: submission.add_comment(... + link).
NotifyBacklink ==
    /\ pc = "submitted"
    /\ LET sub == SubmissionOf(submission)
       IN  \E e \in RedditResults :
             /\ effects' = Append(effects, Effect("submission.add_comment", extra.name,
                                                 BacklinkText(sub.permalink), e))
             /\ IF e = ""
                THEN /\ pc' = "backlinked"
                     /\ UNCHANGED <<crash, postfail, db_links>>
                ELSE PostRaised(e, sub.name)
    /\ UNCHANGED <<cycles, started, date, raw_subs, submission, archives, li,
                   ai, headers, extra, nextid, invoked, commented, extras>>
    /\ UNCHANGED <<caught, call>>

\* The long branch, third step: comment = self.post.add_comment("Wow, ..."),
\* the INSERT.
NotifyShort ==
    /\ pc = "backlinked"
    /\ LET sub == SubmissionOf(submission)
       IN  \E e \in RedditResults :
             /\ effects' = Append(effects, Effect("post.add_comment", sub.name,
                                                 ShortText(extra.url), e))
             /\ IF e = ""
                THEN PostReturned(sub.name, nextid) /\ nextid' = nextid + 1
                ELSE /\ PostRaised(e, sub.name)
                     /\ UNCHANGED <<commented, nextid>>
    /\ UNCHANGED <<cycles, started, date, raw_subs, submission, archives, li,
                   ai, headers, extra, invoked, extras>>
    /\ UNCHANGED <<caught, call>>

\* notify has returned: db.commit(), and the for loop goes on.
RunCommit ==
    /\ pc = "commit"
    /\ pc' = "items"
    /\ submission' = 0
    /\ archives' = <<>>
    /\ extra' = NoExtra
    /\ invoked' = <<>>
    /\ effects' = <<>>
    /\ UNCHANGED <<cycles, started, date, raw_subs, li, ai, db_links, headers,
                   nextid, crash, commented, postfail, extras>>
    /\ UNCHANGED <<caught, call>>

(* --------------------------- the specification ------------------------ *)

Next ==
    \/ RunStart
    \/ SkipNotified
    \/ SkipNoLinks
    \/ StartArchiving
    \/ ArchiveStep
    \/ NotifyBuildRaises
    \/ NotifyComment
    \/ NotifySubmit
    \/ NotifyBacklink
    \/ NotifyShort
    \/ RunCommit
    \/ RunDone

Spec == Init /\ [][Next]_vars

(* -------------------- the functions, applied by themselves ------------ *)

\* The longest text handed to Link.
MaxText == 40

Letters == "abcdefghijklmnopqrstuvwxyzABCDEFGHIJKLMNOPQRSTUVWXYZ0123456789"

\* The texts of anchors: one of every length up to MaxText.
Texts == { SubSeq(Letters, 1, n) : n \in 0..MaxText }

\* Hosts that match REDDIT_PATTERN.
RedditHosts ==
    { "http://www.reddit.com", "https://www.reddit.com", "http://en.reddit.com",
      "https://en-us.reddit.com", "http://m.reddit.com", "https://pay.reddit.com",
      "http://beta.reddit.com", "http://wwwreddit.com" }

\* Hosts that do not.
OtherHosts ==
    { "http://reddit.com", "https://old.reddit.com", "http://example.com",
      "ftp://www.reddit.com" }

\* What can follow /r/x or /u/x in a deeper URL.
ExtraSegments ==
    { "comments", "comments/1/title/", "about/", "wiki/r/test", "u/friend" }

\* A URL of a reddit host given by its parts: the host, /kind/name, and
\* either the optional trailing slash or a further path.
Candidates ==
    [host : RedditHosts, kind : {"r", "u"}, name : {"x", "test"},
     slash : {"", "/"}, extra : {""}]
    \cup [host : RedditHosts, kind : {"r", "u"}, name : {"x", "test"},
          slash : {""}, extra : ExtraSegments]

CandidateUrl(c) ==
    Url(c.host \o "/" \o c.kind \o "/" \o c.name
            \o (IF c.extra = "" THEN c.slash ELSE "/" \o c.extra))

\* The URLs handed to fix_url: mentions, URLs of every host, URLs inside
\* URLs, the empty string and a long URL.
UrlInputs ==
    { Url(m) : m \in { "r/name", "/r/name", "u/name", "/u/name", "user/name",
                       "/user/name/", "r/name/", "r/name/about", "r/", "" } }
    \cup { Url(h \o p) : h \in RedditHosts \cup OtherHosts,
                         p \in { "", "/", "/r/test", "/r/test/comments/1/t/" } }
    \cup { Url("http://example.com/?u=https://m.reddit.com/r/x"),
           Url("https://en.reddit.comhttp://m.reddit.com/u/x"),
           [s |-> "https://ssl.reddit.com/r/", pad |-> 5] }

\* Snapshill.headers with and without a header of the subreddit pics.
HeaderMaps ==
    LET pools == { <<>>, <<"Hi">>, <<"Hi", "Yo!">> }
    IN  { [scope \in {"all"} |-> a] : a \in pools }
        \cup { [scope \in {"all", "pics"} |-> IF scope = "all" THEN a ELSE p] :
               a \in pools, p \in { <<>>, <<"Local">> } }

\* display_name of a subreddit and its lower case.
DisplayNames ==
    { [display_name |-> "Pics", key |-> "pics"],
      [display_name |-> "pics", key |-> "pics"],
      [display_name |-> "News", key |-> "news"] }

runvars == <<pc, cycles, started, date, raw_subs, submission, archives, li, ai,
             db_links, headers, extra, nextid, crash, invoked, effects,
             commented, postfail, extras, caught>>

ApplyFixUrl ==
    /\ \E u \in UrlInputs :
          call' = [op |-> "fix_url", arg |-> u, res |-> fix_url(u)]
    /\ UNCHANGED runvars

ApplySkipUrl ==
    /\ \E c \in Candidates :
          call' = [op |-> "skip_url", arg |-> c, res |-> skip_url(CandidateUrl(c))]
    /\ UNCHANGED runvars

ApplyLink ==
    /\ \E url \in { Url("http://example.com/a"), Url("http://www.reddit.com/r/x/about") } :
       \E text \in Texts :
          call' = [op |-> "Link", arg |-> [url |-> url, text |-> text],
                   res |-> Link(url, text)]
    /\ UNCHANGED runvars

ApplyGetHeader ==
    /\ \E hdrs \in HeaderMaps : \E sr \in DisplayNames :
          call' = [op |-> "_get_header", arg |-> [headers |-> hdrs, subreddit |-> sr],
                   res |-> Snapshill_get_header(hdrs, sr.display_name)]
    /\ UNCHANGED runvars

FnNext ==
    \/ ApplyFixUrl
    \/ ApplySkipUrl
    \/ ApplyLink
    \/ ApplyGetHeader

\* The functions of the module applied to arguments, the bot not running.
FnSpec == Init /\ [][FnNext]_vars

(* ------------------------------ properties ---------------------------- *)

\* The table links has a row for the submission named name.
HasRow(name) == \E r \in 1..Len(db_links) : db_links[r].id = name

CurrentName == SubmissionOf(submission).name

\* run is archiving or notifying its current submission.
Processing == pc \in {"archive", "notify", "submitted", "backlinked"}

\* C1: the dedup gate.  While run archives or notifies a submission the
\* table has no row for it, and a submission that run reached while the
\* table had a row for it has had no archive() call and no posting step.
C1_DedupGate ==
    /\ Processing => ~ HasRow(CurrentName)
    /\ (submission # 0 /\ HasRow(CurrentName) /\ pc # "commit")
          => invoked = <<>> /\ effects = <<>>

\* C1's case: in the second cycle run has reached, and skipped, a
\* submission that the first cycle recorded.
C1_Witness ==
    /\ started = 2
    /\ pc = "items"
    /\ submission # 0
    /\ HasRow(CurrentName)
    /\ CurrentName \in DOMAIN commented
    /\ invoked = <<>>
    /\ effects = <<>>

\* Every row of links names a submission and the comment posted on it.
RowsCommented ==
    \A r \in 1..Len(db_links) :
        /\ db_links[r].id \in DOMAIN commented
        /\ db_links[r].reply \in commented[db_links[r].id]

\* The step is a posting step of notify that raised a RECOVERABLE_EXC.
PostStepFailed ==
    /\ Len(effects') = Len(effects) + 1
    /\ effects'[Len(effects')].exc \in RECOVERABLE_EXC

\* C2: a row is written only after the comment on the submission was
\* posted: every row names a comment that was posted on its submission,
\* and a posting step that raises a recoverable error leaves the table as
\* it was.
C2_RecordAfterPost ==
    [][RowsCommented' /\ (PostStepFailed => db_links' = db_links)]_vars

\* C2's case: notify has returned after a posting step failed, and the
\* table holds the row of an earlier submission.
C2_Witness ==
    /\ pc = "commit"
    /\ effects # <<>>
    /\ effects[Len(effects)].exc \in RECOVERABLE_EXC
    /\ db_links # <<>>
    /\ ~ HasRow(CurrentName)

\* No two rows of links have the same id.
UniqueRows ==
    \A r1, r2 \in 1..Len(db_links) :
        db_links[r1].id = db_links[r2].id => r1 = r2

\* C4: the table is append-only and has one row per submission: every
\* step keeps the rows there were, as they were, and no id has two rows.
C4_AppendOnly ==
    [][/\ Len(db_links') >= Len(db_links)
       /\ SubSeq(db_links', 1, Len(db_links)) = db_links
       /\ UniqueRows']_vars

\* C4's case: the table has two rows and run has met a recorded
\* submission again.
C4_Witness ==
    /\ Len(db_links) >= 2
    /\ pc = "items"
    /\ submission # 0
    /\ HasRow(CurrentName)

\* The posting of an earlier cycle failed for the current submission.
RetryOfFailed == submission # 0 /\ CurrentName \in postfail /\ ~ HasRow(CurrentName)

\* C3: at-least-once notification.  A submission whose posting failed is
\* archived and notified again when the feed returns it again: the process
\* does not end, in the archival or in building the comment, on the retry
\* of a submission that still has no row.
C3_RetryReachesNotify ==
    ~ (pc = "crashed" /\ crash.at \in {"archive", "build"} /\ RetryOfFailed)

\* The sites of a link's attempt list, in order.
SitesOf(link) == [k \in 1..Len(link.archives) |-> link.archives[k].site]

\* C5: the attempt list of every link is archive.org, megalodon.jp, then
\* snew.github.io if and only if the URL matches the reddit pattern, then
\* archive.is, each attempt for the link's URL.
C5_ProviderSet ==
    \A i \in 1..Len(archives) :
        /\ SitesOf(archives[i]) =
              IF REDDIT_PATTERN_match(archives[i].url)
              THEN <<"archive.org", "megalodon.jp", "snew.github.io", "archive.is">>
              ELSE <<"archive.org", "megalodon.jp", "archive.is">>
        /\ \A k \in 1..Len(archives[i].archives) :
              archives[i].archives[k].url = archives[i].url

\* C5's case: run has built links for a URL that matches the pattern and
\* for one that does not.
C5_Witness ==
    /\ pc = "archive"
    /\ \E i, j \in 1..Len(archives) :
          /\ REDDIT_PATTERN_match(archives[i].url)
          /\ ~ REDDIT_PATTERN_match(archives[j].url)

RECURSIVE CallsFrom(_, _)
\* The places <<link, attempt>> of the attempts of as[i..], in list order.
CallsFrom(as, i) ==
    IF i > Len(as) THEN <<>>
    ELSE [k \in 1..Len(as[i].archives) |-> <<i, k>>] \o CallsFrom(as, i + 1)

AttemptAt(place) == archives[place[1]].archives[place[2]]

C7_FailureIsolated ==
    \A n \in 1..Len(invoked) :
        invoked[n].exc # ""
            => /\ invoked[n].kind = "return"
               /\ AttemptAt(<<invoked[n].link, invoked[n].attempt>>).archived = False

\* C8: archive.org answering the save request with 403 gives NotApplicable:
\* the attempt holds None, never an archive URL.
C8_DeniedNotApplicable ==
    \A n \in 1..Len(invoked) :
        (invoked[n].site = "archive.org" /\ invoked[n].status = 403)
            => /\ invoked[n].kind = "return"
               /\ AttemptAt(<<invoked[n].link, invoked[n].attempt>>).archived = None

\* C9: the overflow policy.  The first posting step for a submission is the
\* comment itself exactly when it has at most 9999 characters, and then it
\* is the only step; otherwise the steps are, in this order, the submission
\* to SnapshillBotEx of the text cut to 39999 characters, the back-link
\* comment on that submission with the origin's permalink, and the short
\* comment on the origin with that submission's URL, each after the one
\* before returned; what is posted on the origin is never the long text.
C9_Overflow ==
    effects # <<>> =>
        LET first == effects[1]
            c == first.body.of
            sub == SubmissionOf(submission)
        IN  /\ Len(effects) <= 3
            /\ first.body.kind \in {"comment", "slice"}
            /\ (first.op = "post.add_comment") <=> (CommentLen(c) <= 9999)
            /\ first.op = "post.add_comment"
                  => /\ first.on = sub.name
                     /\ first.body.kind = "comment"
                     /\ first.body.len = CommentLen(c)
                     /\ Len(effects) = 1
            /\ first.op # "post.add_comment"
                  => /\ first.op = "r.submit"
                     /\ first.on = "SnapshillBotEx"
                     /\ first.body.kind = "slice"
                     /\ first.body.len = Min(CommentLen(c), 39999)
                     /\ Len(effects) >= 2
                           => /\ first.ok
                              /\ effects[2].op = "submission.add_comment"
                              /\ effects[2].on = extra.name
                              /\ effects[2].body.kind = "backlink"
                              /\ effects[2].body.of = sub.permalink
                     /\ Len(effects) >= 3
                           => /\ effects[2].ok
                              /\ effects[3].op = "post.add_comment"
                              /\ effects[3].on = sub.name
                              /\ effects[3].body.kind = "short"
                              /\ effects[3].body.of = extra.url
                     /\ pc = "submitted" => Len(effects) = 1
                     /\ pc = "backlinked" => Len(effects) = 2
                     /\ (pc = "commit" /\ effects[Len(effects)].ok) => Len(effects) = 3
            /\ \A n \in 1..Len(effects) :
                  effects[n].on = sub.name
                      => /\ effects[n].body.kind \in {"comment", "short"}
                         /\ effects[n].body.len <= 9999

\* C9's case: the three steps of the long branch were made for a comment
\* of more than 39999 characters.
C9_Witness ==
    /\ pc = "commit"
    /\ Len(effects) = 3
    /\ effects[3].ok
    /\ CommentLen(effects[1].body.of) > 39999
    /\ effects[1].body.len = 39999

\* The line of the comment c for link number i lists the attempts of the
\* link that are not NotApplicable, in order, an archived one with its URL.
LineLists(c, i) ==
    LET want == SelectSeq(archives[i].archives, LAMBDA a : a.archived # None)
    IN  /\ c.lines[i].no = i
        /\ c.lines[i].text = archives[i].text
        /\ Len(c.lines[i].subparts) = Len(want)
        /\ \A k \in 1..Len(want) :
              /\ c.lines[i].subparts[k].site = want[k].site
              /\ IsUrl(want[k].archived)
                    => c.lines[i].subparts[k].archive = want[k].archived

\* C10: once the archival of a submission is over, notify has a comment
\* whose line for every link lists exactly the attempts that are not
\* NotApplicable, the failed ones too.
C10_FailedListed ==
    (/\ archives # <<>>
     /\ Len(invoked) = Len(CallsFrom(archives, 1))
     /\ invoked[Len(invoked)].kind = "return"
     /\ pc # "notify")
        => /\ effects # <<>>
           /\ Len(effects[1].body.of.lines) = Len(archives)
           /\ \A i \in 1..Len(archives) : LineLists(effects[1].body.of, i)

\* The comment notify built for the current submission: the body of its
\* first posting step, whole or cut.
HasBuilt == effects # <<>> /\ effects[1].body.kind \in {"comment", "slice"}

\* C11: the layout of the notification.  The comment notify built starts
\* with a text of the header, has one line per link in the order of the
\* links, numbered from 1, and the line of a link holds the link's display
\* text and the link's source URL.
C11_Layout ==
    HasBuilt =>
        LET c == effects[1].body.of
        IN  /\ c.header \in HeaderChoices(SubmissionOf(submission))
            /\ Len(c.lines) = Len(archives)
            /\ \A i \in 1..Len(archives) :
                  /\ c.lines[i].no = i
                  /\ c.lines[i].text = archives[i].text
                  /\ archives[i].url \in LineUrls(c.lines[i])

\* C12: skip_url of a URL of a reddit host is true when its path is exactly
\* /r/x or /u/x, with or without a trailing slash, and false when a further
\* path segment follows.
C12_SkipBare ==
    call.op = "skip_url" => (call.res <=> call.arg.extra = "")

\* The half of C12 about the bare paths alone.
SkipsEveryBare ==
    (call.op = "skip_url" /\ call.arg.extra = "") => call.res

\* The candidate link of the example.
ExampleLink == Anchor("http://reddit.com/r/test", "Example")

\* C13: for a submission whose text holds the anchor
\* ("http://reddit.com/r/test", "Example"), fix_url makes the URL
\* http://www.reddit.com/r/test, skip_url is true for it, and run appends
\* no link for the anchor.
C13_ExampleSkipped ==
    (/\ archives # <<>>
     /\ \E k \in 1..Len(SubmissionOf(submission).anchors) :
           SubmissionOf(submission).anchors[k] = ExampleLink)
        => /\ fix_url(ExampleLink.href) = Url("http://www.reddit.com/r/test")
           /\ skip_url(fix_url(ExampleLink.href))
           /\ \A i \in 2..Len(archives) : archives[i].text # ExampleLink.text

\* C14: fix_url is idempotent: applied to its own result it returns it.
C14_FixUrlIdempotent ==
    call.op = "fix_url" => fix_url(call.res) = call.res

\* C14's case: fix_url has rewritten the mention /r/name.
C14_Witness ==
    /\ call.op = "fix_url"
    /\ call.arg = Url("/r/name")
    /\ call.res = Url("http://www.reddit.com//r/name")

\* C15: the display text of a link is the first 35 characters of the text
\* and "..." when the text is longer than 35, the text itself otherwise,
\* and has at most 38 characters.
C15_Truncation ==
    call.op = "Link" =>
        LET text == call.arg.text
            shown == call.res.text
        IN  /\ Len(text) > 35 => shown = SubSeq(text, 1, 35) \o "..."
            /\ Len(text) <= 35 => shown = text
            /\ Len(shown) <= 38

\* C15's case: a link was made of a text of 36 characters.
C15_Witness ==
    /\ call.op = "Link"
    /\ Len(call.arg.text) = 36
    /\ Len(call.res.text) = 38
    /\ call.res.text # call.arg.text

\* C17: the header chosen for a subreddit is the header "all" whenever
\* "all" has a text; the header of the subreddit is chosen only when "all"
\* has none, and "all" again when the subreddit has no header.
C17_ScopeResolution ==
    call.op = "_get_header" =>
        LET hdrs == call.arg.headers
            key == call.arg.subreddit.key
        IN  /\ Len(hdrs["all"]) > 0 => call.res = hdrs["all"]
            /\ (Len(hdrs["all"]) = 0 /\ key \in DOMAIN hdrs) => call.res = hdrs[key]
            /\ key \notin DOMAIN hdrs => call.res = hdrs["all"]
            /\ call.res # hdrs["all"] => Len(hdrs["all"]) = 0

\* C17's case: the subreddit has a header with a text, "all" has a text
\* too, and the header chosen is "all".
C17_Witness ==
    /\ call.op = "_get_header"
    /\ call.arg.subreddit.display_name = "Pics"
    /\ "pics" \in DOMAIN call.arg.headers
    /\ Len(call.arg.headers["pics"]) > 0
    /\ Len(call.arg.headers["all"]) > 0
    /\ call.res = call.arg.headers["all"]

\* C16: a recoverable error that leaves a cycle is caught by the loop, which
\* goes on with the next cycle: the process never ends on a recoverable
\* error, the step that catches one leaves the table and the headers as
\* they were, and at the head of the loop the next cycle can start; every
\* error that ends the process is another one.
C16_RecoverableCaught ==
    /\ [](pc = "crashed" => crash.exc \notin RECOVERABLE_EXC)
    /\ []((pc = "loop" /\ started < MaxCycles) => ENABLED RunStart)
    /\ [][(pc' = "loop" /\ caught' # "")
             => /\ caught' \in RECOVERABLE_EXC
                /\ crash' = NoCrash
                /\ db_links' = db_links
                /\ headers' = headers]_vars

\* C16's case: the cycle after one that ended in a caught error is running.
C16_Witness ==
    /\ started = 2
    /\ pc = "items"
    /\ raw_subs # <<>>
    /\ caught \in RECOVERABLE_EXC

\* C18: skip and continue.  A posting step that fails with a recoverable
\* error ends notify without ending run: run commits and its loop goes on
\* with the submissions left, in the order fetched; an exception that ends
\* the process from notify is no recoverable one.
C18_SkipAndContinue ==
    [][/\ PostStepFailed
             => (pc' = "commit" /\ raw_subs' = raw_subs /\ crash' = crash)
       /\ pc = "commit" => (pc' = "items" /\ raw_subs' = raw_subs)
       /\ (pc = "items" /\ raw_subs # <<>>)
             => (submission' = Head(raw_subs) /\ raw_subs' = Tail(raw_subs))
       /\ (pc' = "crashed" /\ crash'.at = "notify")
             => crash'.exc \notin RECOVERABLE_EXC]_vars

\* C18's case: in the first cycle the posting failed for one submission and
\* run is notifying the next.
C18_Witness ==
    /\ started = 1
    /\ pc = "notify"
    /\ postfail # {}
    /\ CurrentName \notin postfail

\* What _build can return for the current submission, by the choice of
\* Header.get.
PossibleComments ==
    { Notification_build(h, archives) : h \in HeaderChoices(SubmissionOf(submission)) }

C20_OneSecondary ==
    \A n \in DOMAIN extras : extras[n] <= 1

=============================================================================
